---- MODULE Spec2Model ----
(***************************************************************************)
(* A model of the file-integrity monitor of src/fimsys.py and of the       *)
(* request handlers of src/app.py that drive it.                           *)
(*                                                                         *)
(* Paths and glob patterns are sequences of one-character strings.  The    *)
(* monitored tree has a fixed directory skeleton (/r, /r/d, /r/d/e) in     *)
(* which regular files come and go.  The baseline document is kept on      *)
(* disk as a sequence of chunks, so that a file that was opened for        *)
(* writing and not yet completely written is a state of the model.         *)
(***************************************************************************)
EXTENDS Integers, Sequences, FiniteSets, TLC

(* ------------------------------ bounds -------------------------------- *)

\* Number of changes the environment makes to the tree in one behaviour.
MaxEdits == 1
\* Number of baseline documents stamped (utcnow) in one behaviour.
MaxClock == 2
\* Number of records in the log beyond which no request is made.
MaxLog == 2

(* --------------------------- program values --------------------------- *)

\* Python's None, in the size and mtime of a record whose stat failed.
None == -1

\* The contents a file of the tree may have: the empty file and two
\* different files of one byte.
Contents == {<<>>, <<0>>, <<1>>}
\* The modification times a file of the tree may carry.
Mtimes == {0, 1}

\* What opening and reading a file does: succeed, or raise the named error.
AccessKinds == {"ok", "PermissionError", "FileNotFoundError", "OSError"}

(* ------------------------------- paths -------------------------------- *)

Sep == "/"

\* TARGET_DIR, already absolute and normalised.
TARGET_DIR == <<"/", "r">>

FileA == <<"a">>
FileB == <<"d", "/", "b">>
FileC == <<"d", "/", "e", "/", "c">>
\* The relative paths at which the tree may hold a regular file.
TreeFiles == {FileA, FileB, FileC}

\* BASELINE_FILE and LOG_FILE are relative names: they resolve against the
\* working directory of the process.
BASELINE_FILE == <<"j">>
LOG_FILE == <<"l">>

\* os.path.join
join(root, name) == root \o <<Sep>> \o name

RECURSIVE LastSep(_)
\* Index of the last separator of a path, 0 when it has none.
LastSep(path) ==
    IF path = <<>> THEN 0
    ELSE IF path[Len(path)] = Sep THEN Len(path)
    ELSE LastSep(SubSeq(path, 1, Len(path) - 1))

\* os.path.basename
basename(path) == SubSeq(path, LastSep(path) + 1, Len(path))

\* os.path.dirname, of a path below the root
dirname(path) == SubSeq(path, 1, LastSep(path) - 1)

\* os.path.relpath(full, target_dir), for a path below target_dir
relpath(full, target_dir) == SubSeq(full, Len(target_dir) + 2, Len(full))

\* Whether the full path lies in directory dir or below it.
IsUnder(full, dir) ==
    /\ Len(full) > Len(dir) + 1
    /\ SubSeq(full, 1, Len(dir) + 1) = dir \o <<Sep>>

\* normalize_path: the model's paths are absolute and normalised already.
normalize_path(path) == path

\* The directories of the skeleton, as full paths.
TreeDirs == {join(TARGET_DIR, <<"d">>), join(TARGET_DIR, <<"d", "/", "e">>)}

(* --------------------------- exclusion rules -------------------------- *)

RECURSIVE fnmatch(_, _)
\* fnmatch.fnmatch on a case-sensitive platform: "*" matches any run of
\* characters (separators included), "?" any one character, anything else
\* itself; the whole name must match.
fnmatch(name, pat) ==
    IF pat = <<>> THEN name = <<>>
    ELSE IF Head(pat) = "*"
         THEN fnmatch(name, Tail(pat))
              \/ (name # <<>> /\ fnmatch(Tail(name), pat))
    ELSE IF Head(pat) = "?"
         THEN name # <<>> /\ fnmatch(Tail(name), Tail(pat))
    ELSE name # <<>> /\ Head(name) = Head(pat) /\ fnmatch(Tail(name), Tail(pat))

\* A plausible slip: the rule is tried on the full path only.
should_exclude_FullPathOnly(path, exclude_patterns) ==
    \E i \in 1..Len(exclude_patterns) : fnmatch(path, exclude_patterns[i])

should_exclude(path, exclude_patterns) ==
    \E i \in 1..Len(exclude_patterns) :
        \/ fnmatch(path, exclude_patterns[i])
        \/ fnmatch(basename(path), exclude_patterns[i])

\* The exclusion lists a deployment may configure (app.py ships the empty
\* one); the last one names a directory, the baseline file and the log file.
ExcludeChoices ==
    { <<>>,
      << <<"d">> >>,
      << <<"/", "r", "/", "d">> >>,
      << <<"*", "b">> >>,
      << <<"e">>, <<"j">>, <<"l">> >> }

\* The deployments: an exclusion list, and whether the process runs with
\* TARGET_DIR as its working directory, which puts the baseline file and
\* the log file into the monitored tree.
Deployments ==
    {<<pats, FALSE>> : pats \in ExcludeChoices}
        \cup {<< <<>>, TRUE >>, << << <<"e">>, <<"j">>, <<"l">> >>, TRUE >>}

(* ------------------------------ the files ------------------------------ *)

\* The bytes of a file: those of a regular file of the tree (data), those
\* of a baseline document (doc, its chunks) or those of the log (lines, the
\* number of records appended to it: the log only grows).
RegularBytes(data) == [data |-> data, doc |-> <<>>, lines |-> 0]
DocBytes(text) == [data |-> <<>>, doc |-> text, lines |-> 0]
LogBytes(lines) == [data |-> <<>>, doc |-> <<>>, lines |-> lines]

NoFile == [present |-> FALSE, bytes |-> RegularBytes(<<>>), size |-> 0, mtime |-> 0, access |-> "ok"]

RegularFile(data, mtime, access) ==
    [present |-> TRUE, bytes |-> RegularBytes(data), size |-> Len(data),
     mtime |-> mtime, access |-> access]

FileStates ==
    {NoFile} \cup {RegularFile(d, t, a) : d \in Contents, t \in Mtimes, a \in AccessKinds}

\* hashlib.sha256(...).hexdigest(): equal bytes give equal digests, and
\* (collision resistance) different bytes different ones.
hexdigest(bytes) == [sentinel |-> "", hex |-> bytes]

ErrorSentinel(kind) == [sentinel |-> kind, hex |-> RegularBytes(<<>>)]

\* compute_sha256: the digest, the sentinel of a PermissionError or a
\* FileNotFoundError, or the exception that the except clause does not name.
compute_sha256(file) ==
    IF file.access = "ok"
    THEN [raised |-> FALSE, value |-> hexdigest(file.bytes)]
    ELSE IF file.access \in {"PermissionError", "FileNotFoundError"}
    THEN [raised |-> FALSE, value |-> ErrorSentinel(file.access)]
    ELSE [raised |-> TRUE, value |-> ErrorSentinel(file.access)]

\* get_file_metadata: os.stat fails on a name that leads nowhere (a
\* dangling link, which open reports as FileNotFoundError).
get_file_metadata(file) ==
    IF file.access = "FileNotFoundError"
    THEN [size |-> None, mtime |-> None]
    ELSE [size |-> file.size, mtime |-> file.mtime]

(* ------------------------- the baseline document ----------------------- *)

EmptyFiles == [p \in {} |-> 0]
NoMeta == [generated_at |-> 0, root |-> <<>>]
NoDoc == [meta |-> NoMeta, files |-> EmptyFiles]

\* The chunks of a baseline file: the "meta" member of a document, its
\* "files" member, or the zero bytes of a hole left by a write past the end.
MetaChunk(meta) == [kind |-> "meta", meta |-> meta, files |-> EmptyFiles]
FilesChunk(files) == [kind |-> "files", meta |-> NoMeta, files |-> files]
Hole == [kind |-> "hole", meta |-> NoMeta, files |-> EmptyFiles]

\* json.dump writes the document chunk by chunk: first the "meta" member,
\* then the "files" member.
JsonDump(doc) == <<MetaChunk(doc.meta), FilesChunk(doc.files)>>

\* Whether json.load can parse the text: it is one whole document.
WellFormed(text) ==
    /\ Len(text) = 2
    /\ text[1].kind = "meta"
    /\ text[2].kind = "files"

JsonLoad(text) == [meta |-> text[1].meta, files |-> text[2].files]

NoBaselineFile == [exists |-> FALSE, text |-> <<>>, mtime |-> 0]

\* load_baseline: None when the file does not exist, the document when the
\* file holds a whole one; json.load raises on anything else.
load_baseline(bf) ==
    IF ~bf.exists THEN [status |-> "None", doc |-> NoDoc]
    ELSE IF WellFormed(bf.text)
    THEN [status |-> "ok", doc |-> JsonLoad(bf.text)]
    ELSE [status |-> "JSONDecodeError", doc |-> NoDoc]

\* The baseline file seen as a file of the tree, when it is stored in it.
BaselineAsFile(bf) ==
    [present |-> TRUE, bytes |-> DocBytes(bf.text), size |-> Len(bf.text),
     mtime |-> bf.mtime, access |-> "ok"]

NoLogFile == [exists |-> FALSE, lines |-> 0, mtime |-> 0]

\* The log file seen as a file of the tree, when it is stored in it.
LogAsFile(lf) ==
    [present |-> TRUE, bytes |-> LogBytes(lf.lines), size |-> lf.lines,
     mtime |-> lf.mtime, access |-> "ok"]

\* What os.walk finds below TARGET_DIR: the regular files, and the baseline
\* file and the log file when the working directory is TARGET_DIR.
TreeView(files, bf, lf, in_tree) ==
    [p \in TreeFiles \cup {BASELINE_FILE, LOG_FILE} |->
        IF p \in TreeFiles THEN files[p]
        ELSE IF p = BASELINE_FILE
        THEN (IF in_tree /\ bf.exists THEN BaselineAsFile(bf) ELSE NoFile)
        ELSE (IF in_tree /\ lf.exists THEN LogAsFile(lf) ELSE NoFile)]

(* ------------------------------- scanning ------------------------------ *)

RECURSIVE walk_NoPrune(_, _, _)
\* A slip: the rules filter the files but no directory is pruned.
walk_NoPrune(dir, tree, exclude_patterns) ==
    LET here == {p \in DOMAIN tree :
                    /\ tree[p].present
                    /\ dirname(join(TARGET_DIR, p)) = dir
                    /\ ~should_exclude(join(dir, basename(p)), exclude_patterns)}
        subs == {d \in TreeDirs : dirname(d) = dir}
    IN  here \cup UNION {walk_NoPrune(d, tree, exclude_patterns) : d \in subs}

RECURSIVE walk(_, _, _)
\* The os.walk loop of scan_current_state and of build_baseline: the
\* relative paths of the files retained in dir and below.  The directories
\* of dir are filtered before the walk descends; dir itself is not tested.
walk(dir, tree, exclude_patterns) ==
    LET here == {p \in DOMAIN tree :
                    /\ tree[p].present
                    /\ dirname(join(TARGET_DIR, p)) = dir
                    /\ ~should_exclude(join(dir, basename(p)), exclude_patterns)}
        subs == {d \in TreeDirs :
                    /\ dirname(d) = dir
                    /\ ~should_exclude(join(dir, basename(d)), exclude_patterns)}
    IN  here \cup UNION {walk(d, tree, exclude_patterns) : d \in subs}

\* The record a scan stores for a file.
FileRecord(file) ==
    [hash |-> compute_sha256(file).value,
     size |-> get_file_metadata(file).size,
     mtime |-> get_file_metadata(file).mtime]

\* scan_current_state: the records of the retained files by relative path,
\* or the exception compute_sha256 let through.
scan_current_state(tree, exclude_patterns) ==
    LET kept == {relpath(join(TARGET_DIR, p), normalize_path(TARGET_DIR)) :
                    p \in walk(normalize_path(TARGET_DIR), tree, exclude_patterns)}
    IN  [raised |-> \E p \in kept : compute_sha256(tree[p]).raised,
         cur |-> [p \in kept |-> FileRecord(tree[p])]]

\* A slip: the baseline is built without the exclusion rules.
build_baseline_NoExclusions(tree, exclude_patterns, clock) ==
    LET kept == {relpath(join(TARGET_DIR, p), normalize_path(TARGET_DIR)) :
                    p \in walk(normalize_path(TARGET_DIR), tree, <<>>)}
    IN  [raised |-> \E p \in kept : compute_sha256(tree[p]).raised,
         doc |-> [meta |-> [generated_at |-> clock, root |-> normalize_path(TARGET_DIR)],
                  files |-> [p \in kept |-> FileRecord(tree[p])]]]

\* build_baseline up to the write: the document, stamped with the clock.
build_baseline(tree, exclude_patterns, clock) ==
    LET kept == {relpath(join(TARGET_DIR, p), normalize_path(TARGET_DIR)) :
                    p \in walk(normalize_path(TARGET_DIR), tree, exclude_patterns)}
    IN  [raised |-> \E p \in kept : compute_sha256(tree[p]).raised,
         doc |-> [meta |-> [generated_at |-> clock, root |-> normalize_path(TARGET_DIR)],
                  files |-> [p \in kept |-> FileRecord(tree[p])]]]

(* ------------------------------- diffing ------------------------------- *)

RECURSIVE SetToSeq(_)
\* A list built by iterating over a set, in the order the set gives.
SetToSeq(S) ==
    IF S = {} THEN <<>>
    ELSE LET x == CHOOSE y \in S : TRUE IN <<x>> \o SetToSeq(S \ {x})

\* A slip: every current path is taken as added.
added_keys_All(base_keys, cur_keys) == cur_keys

added_keys(base_keys, cur_keys) == cur_keys \ base_keys

\* A slip: every path of the baseline is taken as deleted.
deleted_keys_All(base_keys, cur_keys) == base_keys

deleted_keys(base_keys, cur_keys) == base_keys \ cur_keys

common_keys(base_keys, cur_keys) == base_keys \cap cur_keys

\* A slip: the whole records are compared, size and mtime included.
differs_AnyField(base_rec, cur_rec) == base_rec # cur_rec

\* The test of line 147.
differs(base_rec, cur_rec) == base_rec.hash # cur_rec.hash

\* A slip: a deleted path and an added path with the same digest are taken
\* for one file that moved, and reported as one modification.
compare_baseline_and_current_Moves(baseline, current) ==
    LET base_files == baseline.files
        base_keys == DOMAIN base_files
        cur_keys == DOMAIN current
        target(k) == {b \in added_keys(base_keys, cur_keys) :
                         current[b].hash = base_files[k].hash}
        moved == {k \in deleted_keys(base_keys, cur_keys) : target(k) # {}}
        landed == UNION {target(k) : k \in moved}
        added == SetToSeq(added_keys(base_keys, cur_keys) \ landed)
        deleted == SetToSeq(deleted_keys(base_keys, cur_keys) \ moved)
        common == SetToSeq({k \in common_keys(base_keys, cur_keys) :
                               differs(base_files[k], current[k])} \cup moved)
    IN  [added |-> [i \in 1..Len(added) |-> [path |-> added[i], current |-> current[added[i]]]],
         deleted |-> [i \in 1..Len(deleted) |->
                         [path |-> deleted[i], baseline |-> base_files[deleted[i]]]],
         modified |-> [i \in 1..Len(common) |->
                         [path |-> common[i], baseline |-> base_files[common[i]],
                          current |-> IF common[i] \in moved
                                      THEN current[CHOOSE b \in target(common[i]) : TRUE]
                                      ELSE current[common[i]]]]]

compare_baseline_and_current(baseline, current) ==
    LET base_files == baseline.files
        base_keys == DOMAIN base_files
        cur_keys == DOMAIN current
        added == SetToSeq(added_keys(base_keys, cur_keys))
        deleted == SetToSeq(deleted_keys(base_keys, cur_keys))
        common == SetToSeq({k \in common_keys(base_keys, cur_keys) :
                               differs(base_files[k], current[k])})
    IN  [added |-> [i \in 1..Len(added) |-> [path |-> added[i], current |-> current[added[i]]]],
         deleted |-> [i \in 1..Len(deleted) |->
                         [path |-> deleted[i], baseline |-> base_files[deleted[i]]]],
         modified |-> [i \in 1..Len(common) |->
                         [path |-> common[i], baseline |-> base_files[common[i]],
                          current |-> current[common[i]]]]]

NoDiffs == [added |-> <<>>, deleted |-> <<>>, modified |-> <<>>]

\* print_and_log_diffs: a header per non-empty list and a record per entry,
\* or the one record "No changes detected."; changes counts the entries.
print_and_log_diffs(diffs) ==
    LET changes == Len(diffs.added) + Len(diffs.deleted) + Len(diffs.modified)
        headers == (IF diffs.added # <<>> THEN 1 ELSE 0)
                   + (IF diffs.deleted # <<>> THEN 1 ELSE 0)
                   + (IF diffs.modified # <<>> THEN 1 ELSE 0)
    IN  [changes |-> changes,
         records |-> IF changes = 0 THEN 1 ELSE changes + headers]

(* -------------------------------- state -------------------------------- *)

VARIABLES
    fs,                 \* the regular files of the tree, by relative path
    exclude_patterns,   \* EXCLUDE_PATTERNS
    cwd_is_target,      \* whether BASELINE_FILE and LOG_FILE resolve into TARGET_DIR
    bfile,              \* the baseline file on disk
    logfile,            \* the log file on disk
    now,                \* the clock: it ticks with every document that is stamped
    edits,              \* the number of changes made to the tree so far
    untouched,          \* the tree was not changed since the last baseline was built
    resp,               \* what the last request handler returned
    mon,                \* the monitor threads: where each is, and its locals
    cb,                 \* the thread of a create_baseline request that is under way
    alive,              \* whether the process runs
    walker              \* a scan that is followed file by file

env == <<fs, edits>>
config == <<exclude_patterns, cwd_is_target>>
threads == <<mon, cb, alive>>
vars == <<fs, exclude_patterns, cwd_is_target, bfile, logfile, now, edits, untouched, resp,
          mon, cb, alive, walker>>

\* The threads that app.start_monitor may start, one for each request, named
\* in the order in which they start.
Monitors == {1, 2}

\* A monitor thread: update is the update_baseline argument, held the
\* baseline of the loop, current and changes the last scan and its count,
\* emitted what json.dump wrote through the open file so far, reported the
\* error the loop logged before it returned.
IdleMonitor ==
    [pc |-> "idle", update |-> FALSE, held |-> NoDoc, current |-> EmptyFiles,
     changes |-> 0, emitted |-> <<>>, reported |-> ""]

IdleCreate == [pc |-> "idle", doc |-> NoDoc, emitted |-> <<>>]

NoResp ==
    [op |-> "none", raised |-> FALSE, rc |-> 0, scanned |-> FALSE, total_files |-> 0,
     baseline |-> NoDoc, current |-> EmptyFiles, diffs |-> NoDiffs]

\* A scan followed file by file: at is the directory os.walk has reached,
\* listed the files of its listing that are still to be read, cur the map
\* built so far, seen the trees there have been since the scan began.
IdleWalker == [pc |-> "idle", at |-> 1, listed |-> {}, cur |-> EmptyFiles, seen |-> {}]

Tree == TreeView(fs, bfile, logfile, cwd_is_target)

\* setup_logger(log_file): the FileHandler opens the log for appending, which
\* creates it.
setup_logger(lf) == [lf EXCEPT !.exists = TRUE]

\* Whether a scan reads the log: it is a file of the tree that no rule excludes.
LogIsScanned(in_tree, patterns) ==
    in_tree /\ ~should_exclude(join(TARGET_DIR, LOG_FILE), patterns)

\* The log after the handler appended records to it.  What the log holds is
\* followed only when a scan reads it: nothing else does.
Logged(lf, records, in_tree, patterns) ==
    IF LogIsScanned(in_tree, patterns) /\ records > 0
    THEN [exists |-> TRUE, lines |-> lf.lines + records, mtime |-> lf.lines + records]
    ELSE [lf EXCEPT !.exists = TRUE]

Init ==
    /\ fs \in {[p \in TreeFiles |-> NoFile], [p \in TreeFiles |-> RegularFile(<<>>, 0, "ok")]}
    /\ \E dep \in Deployments : exclude_patterns = dep[1] /\ cwd_is_target = dep[2]
    /\ bfile = NoBaselineFile
    /\ logfile = NoLogFile
    /\ now = 0
    /\ edits = 0
    /\ untouched = FALSE
    /\ resp = NoResp
    /\ mon = [m \in Monitors |-> IdleMonitor]
    /\ cb = IdleCreate
    /\ alive = TRUE
    /\ walker = IdleWalker

(* --------------------------- the environment --------------------------- *)

\* A change of the tree, counted while the process runs.
Edited ==
    /\ alive
    /\ edits < MaxEdits
    /\ edits' = edits + 1
    /\ untouched' = FALSE
    /\ resp' = NoResp
    /\ walker' = IF walker.pc \in {"list", "hash"}
                 THEN [walker EXCEPT !.seen = @ \cup {fs'}]
                 ELSE walker
    /\ UNCHANGED <<config, bfile, logfile, now, threads>>

\* Some process creates the file or rewrites it, with any modification time.
WriteFile(p, data, mtime) ==
    /\ fs[p] # RegularFile(data, mtime, fs[p].access)
    /\ fs' = [fs EXCEPT ![p] = RegularFile(data, mtime, fs[p].access)]
    /\ Edited

RemoveFile(p) ==
    /\ fs[p].present
    /\ fs' = [fs EXCEPT ![p] = NoFile]
    /\ Edited

\* The files of a directory of the skeleton are removed together.
RemoveDir(d) ==
    /\ \E p \in TreeFiles : fs[p].present /\ IsUnder(join(TARGET_DIR, p), d)
    /\ fs' = [p \in TreeFiles |->
                 IF IsUnder(join(TARGET_DIR, p), d) THEN NoFile ELSE fs[p]]
    /\ Edited

\* The file becomes unreadable in some way, or readable again.
SetAccess(p, access) ==
    /\ fs[p].present
    /\ fs[p].access # access
    /\ fs' = [fs EXCEPT ![p].access = access]
    /\ Edited

\* os.rename(p, q) to a name that is free: the file, with its bytes and its
\* modification time, is found at q and no longer at p.
RenameFile(p, q) ==
    /\ p # q
    /\ fs[p].present
    /\ ~fs[q].present
    /\ fs' = [fs EXCEPT ![q] = fs[p], ![p] = NoFile]
    /\ Edited

(* ------------------------- the request handlers ------------------------ *)

\* The file as open(baseline_file, 'w') and json.dump leave it.
Written(doc, clock) == [exists |-> TRUE, text |-> JsonDump(doc), mtime |-> clock]

\* app.create_baseline, run to its end: build_baseline walks the tree, then
\* writes the document; an exception of the walk leaves the file alone.
CreateBaseline ==
    /\ now < MaxClock
    /\ LET b == build_baseline(Tree, exclude_patterns, now)
       IN  IF b.raised
           THEN /\ resp' = [NoResp EXCEPT !.op = "baseline", !.raised = TRUE]
                /\ UNCHANGED <<bfile, untouched, now>>
           ELSE /\ bfile' = Written(b.doc, now)
                /\ now' = now + 1
                /\ untouched' = TRUE
                /\ resp' = [NoResp EXCEPT !.op = "baseline", !.baseline = b.doc,
                                          !.total_files = Cardinality(DOMAIN b.doc.files)]
    /\ UNCHANGED <<env, config, walker, logfile, threads>>

\* A slip: without a baseline the scan is run against an empty one.
run_scan_once_NoPrecondition(bf, lf, files, patterns, in_tree) ==
    LET loaded == load_baseline(bf)
        scan == scan_current_state(TreeView(files, bf, setup_logger(lf), in_tree), patterns)
        diffs == compare_baseline_and_current(loaded.doc, scan.cur)
        report == print_and_log_diffs(diffs)
    IN  [resp |-> [NoResp EXCEPT !.op = "scan", !.scanned = TRUE, !.baseline = loaded.doc,
                                 !.raised = scan.raised, !.current = scan.cur,
                                 !.diffs = diffs,
                                 !.rc = IF report.changes = 0 THEN 0 ELSE 1],
         records |-> report.records]

\* run_scan_once: what it returns with the values it computed on the way,
\* and the number of records it logged.
run_scan_once(bf, lf, files, patterns, in_tree) ==
    LET loaded == load_baseline(bf)
        scan == scan_current_state(TreeView(files, bf, setup_logger(lf), in_tree), patterns)
        diffs == compare_baseline_and_current(loaded.doc, scan.cur)
        report == print_and_log_diffs(diffs)
    IN  IF loaded.status = "None"
        THEN [resp |-> [NoResp EXCEPT !.op = "scan", !.rc = 2], records |-> 1]
        ELSE IF loaded.status # "ok"
        THEN [resp |-> [NoResp EXCEPT !.op = "scan", !.raised = TRUE], records |-> 0]
        ELSE IF scan.raised
        THEN [resp |-> [NoResp EXCEPT !.op = "scan", !.raised = TRUE, !.scanned = TRUE,
                                      !.baseline = loaded.doc],
              records |-> 0]
        ELSE [resp |-> [NoResp EXCEPT !.op = "scan", !.scanned = TRUE,
                                      !.baseline = loaded.doc, !.current = scan.cur,
                                      !.diffs = diffs,
                                      !.rc = IF report.changes = 0 THEN 0 ELSE 1],
              records |-> report.records]

\* A slip: a scan that found changes stores what it scanned as the baseline.
ScanOnce_Rebaselines ==
    /\ logfile.lines < MaxLog
    /\ LET r == run_scan_once(bfile, logfile, fs, exclude_patterns, cwd_is_target)
       IN  /\ resp' = r.resp
           /\ logfile' = Logged(setup_logger(logfile), r.records, cwd_is_target, exclude_patterns)
           /\ bfile' = IF r.resp.rc = 1
                       THEN Written([meta |-> r.resp.baseline.meta, files |-> r.resp.current],
                                    bfile.mtime)
                       ELSE bfile
    /\ UNCHANGED <<env, config, walker, now, untouched, threads>>

\* app.scan_once, run to its end.
ScanOnce ==
    /\ logfile.lines < MaxLog
    /\ LET r == run_scan_once(bfile, logfile, fs, exclude_patterns, cwd_is_target)
       IN  /\ resp' = r.resp
           /\ logfile' = Logged(setup_logger(logfile), r.records, cwd_is_target, exclude_patterns)
    /\ UNCHANGED <<env, config, walker, bfile, now, untouched, threads>>

Next ==
    \/ \E p \in TreeFiles, data \in Contents, mtime \in Mtimes : WriteFile(p, data, mtime)
    \/ \E p \in TreeFiles : RemoveFile(p)
    \/ \E d \in TreeDirs : RemoveDir(d)
    \/ \E p \in TreeFiles, access \in AccessKinds : SetAccess(p, access)
    \/ CreateBaseline
    \/ ScanOnce

Spec == Init /\ [][Next]_vars

\* The deployments, and one more that stores both files in the tree and
\* excludes the baseline file only.
MoveDeployments == Deployments \cup {<< << <<"j">> >>, TRUE >>}

\* The log file that an earlier run of the process left behind.
EarlierLog == [exists |-> TRUE, lines |-> 0, mtime |-> 0]

\* Trees in which a file can be moved: every file is absent, or empty, or
\* holds one byte; the log file may exist already.
InitMove ==
    /\ fs \in [TreeFiles -> {NoFile, RegularFile(<<>>, 0, "ok"), RegularFile(<<1>>, 0, "ok")}]
    /\ \E dep \in MoveDeployments : exclude_patterns = dep[1] /\ cwd_is_target = dep[2]
    /\ bfile = NoBaselineFile
    /\ logfile \in {NoLogFile, EarlierLog}
    /\ now = 0
    /\ edits = 0
    /\ untouched = FALSE
    /\ resp = NoResp
    /\ mon = [m \in Monitors |-> IdleMonitor]
    /\ cb = IdleCreate
    /\ alive = TRUE
    /\ walker = IdleWalker

NextMove ==
    \/ \E p \in TreeFiles, q \in TreeFiles : RenameFile(p, q)
    \/ CreateBaseline
    \/ ScanOnce

\* The request handlers, each run to its end, while files of the tree are
\* renamed.
SpecMove == InitMove /\ [][NextMove]_vars

(* ------------------------------ the threads ---------------------------- *)

\* A write of one chunk at a position of the file, through a handle that
\* keeps its own position: the chunk replaces what is there, or is appended,
\* or lands past the end and leaves a hole.
WriteAt(text, pos, chunk) ==
    [i \in 1..(IF pos > Len(text) THEN pos ELSE Len(text)) |->
        IF i = pos THEN chunk
        ELSE IF i <= Len(text) THEN text[i]
        ELSE Hole]

\* open(baseline_file, 'w') creates the file or truncates it.
Truncated(clock) == [exists |-> TRUE, text |-> <<>>, mtime |-> clock]

\* app.start_monitor: every request starts a daemon thread of its own that
\* runs monitor_loop.  The handler passes update_baseline = True; other
\* callers of monitor_loop may pass False.
StartMonitor(m, update) ==
    /\ alive
    /\ mon[m].pc = "idle"
    /\ \A k \in Monitors : k < m => mon[k].pc # "idle"
    /\ mon' = [mon EXCEPT ![m] = [IdleMonitor EXCEPT !.pc = "load", !.update = update]]
    /\ UNCHANGED <<env, config, walker, bfile, logfile, now, untouched, resp, cb, alive>>

\* A slip: without a baseline the loop logs the error and tries again.
MonitorLoad_Retries(m) ==
    /\ alive
    /\ mon[m].pc = "load"
    /\ logfile.lines < MaxLog
    /\ LET loaded == load_baseline(bfile)
       IN  /\ mon' = [mon EXCEPT ![m] =
                        IF loaded.status = "None"
                        THEN [@ EXCEPT !.reported = "Baseline not found. Run baseline first."]
                        ELSE IF loaded.status = "ok"
                        THEN [@ EXCEPT !.pc = "scan", !.held = loaded.doc]
                        ELSE [@ EXCEPT !.pc = "crashed"]]
           /\ logfile' = Logged(setup_logger(logfile),
                                IF loaded.status = "None" THEN 2 ELSE 1,
                                cwd_is_target, exclude_patterns)
    /\ UNCHANGED <<env, config, walker, bfile, now, untouched, resp, cb, alive>>

\* monitor_loop up to the loop: the logger is set up, the baseline loaded
\* once; without a baseline the loop logs the error and returns, and a file
\* that json.load cannot parse ends the thread with the exception.
MonitorLoad(m) ==
    /\ alive
    /\ mon[m].pc = "load"
    /\ logfile.lines < MaxLog
    /\ LET loaded == load_baseline(bfile)
       IN  /\ mon' = [mon EXCEPT ![m] =
                        IF loaded.status = "None"
                        THEN [@ EXCEPT !.pc = "stopped",
                                       !.reported = "Baseline not found. Run baseline first."]
                        ELSE IF loaded.status = "ok"
                        THEN [@ EXCEPT !.pc = "scan", !.held = loaded.doc]
                        ELSE [@ EXCEPT !.pc = "crashed"]]
           /\ logfile' = Logged(setup_logger(logfile),
                                IF loaded.status = "None" THEN 2 ELSE 1,
                                cwd_is_target, exclude_patterns)
    /\ UNCHANGED <<env, config, walker, bfile, now, untouched, resp, cb, alive>>

\* A slip: the held baseline is replaced but never written.
MonitorScan_NoPersist(m) ==
    /\ alive
    /\ mon[m].pc = "scan"
    /\ logfile.lines < MaxLog
    /\ LET scan == scan_current_state(Tree, exclude_patterns)
           diffs == compare_baseline_and_current(mon[m].held, scan.cur)
           report == print_and_log_diffs(diffs)
       IN  IF scan.raised
           THEN /\ mon' = [mon EXCEPT ![m].pc = "crashed"]
                /\ UNCHANGED <<logfile, now>>
           ELSE /\ logfile' = Logged(logfile, report.records, cwd_is_target, exclude_patterns)
                /\ IF report.changes > 0 /\ mon[m].update
                   THEN /\ now < MaxClock
                        /\ now' = now + 1
                        /\ mon' = [mon EXCEPT ![m] =
                                     [@ EXCEPT !.pc = "sleep", !.current = scan.cur,
                                               !.changes = report.changes,
                                               !.held = [meta |-> [generated_at |-> now,
                                                                   root |-> normalize_path(TARGET_DIR)],
                                                         files |-> scan.cur]]]
                   ELSE /\ mon' = [mon EXCEPT ![m] =
                                     [@ EXCEPT !.pc = "sleep", !.current = scan.cur,
                                               !.changes = report.changes]]
                        /\ UNCHANGED now
    /\ UNCHANGED <<env, config, walker, bfile, untouched, resp, cb, alive>>

\* A slip: the new baseline is written but the loop goes on comparing
\* against the baseline it held before.
MonitorScan_KeepsHeld(m) ==
    /\ alive
    /\ mon[m].pc = "scan"
    /\ logfile.lines < MaxLog
    /\ LET scan == scan_current_state(Tree, exclude_patterns)
           diffs == compare_baseline_and_current(mon[m].held, scan.cur)
           report == print_and_log_diffs(diffs)
       IN  IF scan.raised
           THEN /\ mon' = [mon EXCEPT ![m].pc = "crashed"]
                /\ UNCHANGED <<logfile, now>>
           ELSE /\ logfile' = Logged(logfile, report.records, cwd_is_target, exclude_patterns)
                /\ IF report.changes > 0 /\ mon[m].update
                   THEN /\ now < MaxClock
                        /\ now' = now + 1
                        /\ mon' = [mon EXCEPT ![m] =
                                     [@ EXCEPT !.pc = "open", !.current = scan.cur,
                                               !.changes = report.changes]]
                   ELSE /\ mon' = [mon EXCEPT ![m] =
                                     [@ EXCEPT !.pc = "sleep", !.current = scan.cur,
                                               !.changes = report.changes]]
                        /\ UNCHANGED now
    /\ UNCHANGED <<env, config, walker, bfile, untouched, resp, cb, alive>>

\* One cycle of the loop up to the write: the scan, the diff against the
\* held baseline, the report and, when changes were found and update_baseline
\* is set, the replacement of the held baseline (lines 185 to 194).  An
\* exception of the scan ends the thread.
MonitorScan(m) ==
    /\ alive
    /\ mon[m].pc = "scan"
    /\ logfile.lines < MaxLog
    /\ LET scan == scan_current_state(Tree, exclude_patterns)
           diffs == compare_baseline_and_current(mon[m].held, scan.cur)
           report == print_and_log_diffs(diffs)
       IN  IF scan.raised
           THEN /\ mon' = [mon EXCEPT ![m].pc = "crashed"]
                /\ UNCHANGED <<logfile, now>>
           ELSE /\ logfile' = Logged(logfile, report.records, cwd_is_target, exclude_patterns)
                /\ IF report.changes > 0 /\ mon[m].update
                   THEN /\ now < MaxClock
                        /\ now' = now + 1
                        /\ mon' = [mon EXCEPT ![m] =
                                     [@ EXCEPT !.pc = "open", !.current = scan.cur,
                                               !.changes = report.changes,
                                               !.held = [meta |-> [generated_at |-> now,
                                                                   root |-> normalize_path(TARGET_DIR)],
                                                         files |-> scan.cur]]]
                   ELSE /\ mon' = [mon EXCEPT ![m] =
                                     [@ EXCEPT !.pc = "sleep", !.current = scan.cur,
                                               !.changes = report.changes]]
                        /\ UNCHANGED now
    /\ UNCHANGED <<env, config, walker, bfile, untouched, resp, cb, alive>>

\* Line 195: the file is opened for writing, which empties it.
MonitorOpen(m) ==
    /\ alive
    /\ mon[m].pc = "open"
    /\ bfile' = Truncated(now)
    /\ mon' = [mon EXCEPT ![m].pc = "dump", ![m].emitted = <<>>]
    /\ UNCHANGED <<env, config, walker, logfile, now, untouched, resp, cb, alive>>

\* Line 195 when the file cannot be opened for writing: the exception is
\* caught nowhere and ends the thread.
MonitorOpenFails(m) ==
    /\ alive
    /\ mon[m].pc = "open"
    /\ mon' = [mon EXCEPT ![m].pc = "crashed"]
    /\ UNCHANGED <<env, config, walker, bfile, logfile, now, untouched, resp, cb, alive>>

\* A slip: the file is closed after the first chunk.
MonitorDump_OneChunk(m) ==
    /\ alive
    /\ mon[m].pc = "dump"
    /\ bfile' = [exists |-> TRUE, text |-> WriteAt(bfile.text, 1, JsonDump(mon[m].held)[1]),
                 mtime |-> now]
    /\ mon' = [mon EXCEPT ![m].emitted = <<>>, ![m].pc = "sleep"]
    /\ logfile' = Logged(logfile, 1, cwd_is_target, exclude_patterns)
    /\ UNCHANGED <<env, config, walker, now, untouched, resp, cb, alive>>

\* Line 196: json.dump writes the next chunk of the held baseline; after the
\* last one the file is closed, the update logged and the loop sleeps.
MonitorDump(m) ==
    /\ alive
    /\ mon[m].pc = "dump"
    /\ LET text == JsonDump(mon[m].held)
           pos == Len(mon[m].emitted) + 1
           last == pos = Len(text)
       IN  /\ bfile' = [exists |-> TRUE, text |-> WriteAt(bfile.text, pos, text[pos]),
                        mtime |-> now]
           /\ mon' = [mon EXCEPT ![m].emitted = IF last THEN <<>> ELSE Append(@, text[pos]),
                                 ![m].pc = IF last THEN "sleep" ELSE "dump"]
           /\ logfile' = IF last
                         THEN Logged(logfile, 1, cwd_is_target, exclude_patterns)
                         ELSE logfile
    /\ UNCHANGED <<env, config, walker, now, untouched, resp, cb, alive>>

\* A slip: the baseline is loaded again at the start of every cycle.
MonitorWake_Reloads(m) ==
    /\ alive
    /\ mon[m].pc = "sleep"
    /\ mon' = [mon EXCEPT ![m].pc = "scan",
                          ![m].held = IF load_baseline(bfile).status = "ok"
                                      THEN load_baseline(bfile).doc ELSE @]
    /\ UNCHANGED <<env, config, walker, bfile, logfile, now, untouched, resp, cb, alive>>

\* Line 199: time.sleep(interval) returns and the next cycle begins.
MonitorWake(m) ==
    /\ alive
    /\ mon[m].pc = "sleep"
    /\ mon' = [mon EXCEPT ![m].pc = "scan"]
    /\ UNCHANGED <<env, config, walker, bfile, logfile, now, untouched, resp, cb, alive>>

\* app.create_baseline begins: build_baseline walks the tree and builds the
\* document (lines 77 to 99); an exception of the walk ends the request.
CreateBuild ==
    /\ alive
    /\ cb.pc = "idle"
    /\ now < MaxClock
    /\ LET b == build_baseline(Tree, exclude_patterns, now)
       IN  /\ ~b.raised
           /\ cb' = [pc |-> "open", doc |-> b.doc, emitted |-> <<>>]
           /\ now' = now + 1
    /\ UNCHANGED <<env, config, walker, bfile, logfile, untouched, resp, mon, alive>>

\* Line 100: the file is opened for writing, which empties it.
CreateOpen ==
    /\ alive
    /\ cb.pc = "open"
    /\ bfile' = Truncated(now)
    /\ cb' = [cb EXCEPT !.pc = "dump"]
    /\ UNCHANGED <<env, config, walker, logfile, now, untouched, resp, mon, alive>>

\* Line 101: json.dump writes the next chunk; after the last one the file
\* is closed and the request returns.
CreateDump ==
    /\ alive
    /\ cb.pc = "dump"
    /\ LET text == JsonDump(cb.doc)
           pos == Len(cb.emitted) + 1
       IN  /\ bfile' = [exists |-> TRUE, text |-> WriteAt(bfile.text, pos, text[pos]),
                        mtime |-> now]
           /\ cb' = IF pos = Len(text) THEN IdleCreate
                    ELSE [cb EXCEPT !.emitted = Append(@, text[pos])]
    /\ UNCHANGED <<env, config, walker, logfile, now, untouched, resp, mon, alive>>

\* The process is terminated: its threads, daemon threads included, end
\* where they are, and what they were writing stays as it is.
Terminate ==
    /\ alive
    /\ \E m \in Monitors : mon[m].pc # "idle"
    /\ alive' = FALSE
    /\ mon' = [m \in Monitors |-> IF mon[m].pc \in {"idle", "stopped", "crashed"}
                                  THEN mon[m] ELSE [mon[m] EXCEPT !.pc = "dead"]]
    /\ cb' = IF cb.pc = "idle" THEN cb ELSE [cb EXCEPT !.pc = "dead"]
    /\ UNCHANGED <<env, config, walker, bfile, logfile, now, untouched, resp>>

\* The deployment of app.py: no exclusion rule, the baseline file and the
\* log file outside the tree; the tree holds file a or is empty.
InitConc ==
    /\ fs \in {[p \in TreeFiles |-> NoFile],
               [p \in TreeFiles |-> IF p = FileA THEN RegularFile(<<>>, 0, "ok") ELSE NoFile]}
    /\ exclude_patterns = <<>>
    /\ cwd_is_target = FALSE
    /\ bfile = NoBaselineFile
    /\ logfile = NoLogFile
    /\ now = 0
    /\ edits = 0
    /\ untouched = FALSE
    /\ resp = NoResp
    /\ mon = [m \in Monitors |-> IdleMonitor]
    /\ cb = IdleCreate
    /\ alive = TRUE
    /\ walker = IdleWalker

NextConc ==
    \/ \E data \in Contents : WriteFile(FileA, data, 0)
    \/ RemoveFile(FileA)
    \/ SetAccess(FileA, "OSError")
    \/ \E m \in Monitors, update \in BOOLEAN : StartMonitor(m, update)
    \/ \E m \in Monitors : MonitorLoad(m)
    \/ \E m \in Monitors : MonitorScan(m)
    \/ \E m \in Monitors : MonitorOpen(m)
    \/ \E m \in Monitors : MonitorOpenFails(m)
    \/ \E m \in Monitors : MonitorDump(m)
    \/ \E m \in Monitors : MonitorWake(m)
    \/ CreateBuild
    \/ CreateOpen
    \/ CreateDump
    \/ Terminate

\* The handlers and the monitor threads of one process, interleaved at
\* their reads and writes of the baseline file.
SpecConc == InitConc /\ [][NextConc]_vars

\* The deployments of a lone loop: the files outside the tree; the files in
\* the tree with the log excluded; the files in the tree and both excluded.
LoopDeployments ==
    { << <<>>, FALSE >>,
      << << <<"l">> >>, TRUE >>,
      << << <<"e">>, <<"j">>, <<"l">> >>, TRUE >> }

\* A baseline file exists: an earlier create_baseline request wrote it for
\* the tree as it is, and no request is made any more except start_monitor.
InitLoop ==
    /\ fs \in {[p \in TreeFiles |-> RegularFile(<<>>, 0, "ok")],
               [p \in TreeFiles |-> IF p = FileA THEN RegularFile(<<1>>, 0, "ok") ELSE NoFile]}
    /\ \E dep \in LoopDeployments : exclude_patterns = dep[1] /\ cwd_is_target = dep[2]
    /\ bfile = Written(build_baseline(TreeView(fs, NoBaselineFile, NoLogFile, cwd_is_target),
                                      exclude_patterns, 0).doc, 0)
    /\ logfile = NoLogFile
    /\ now = 0
    /\ edits = 0
    /\ untouched = TRUE
    /\ resp = NoResp
    /\ mon = [m \in Monitors |-> IdleMonitor]
    /\ cb = IdleCreate
    /\ alive = TRUE
    /\ walker = IdleWalker

NextLoop ==
    \/ \E p \in {FileA, FileB}, data \in Contents : WriteFile(p, data, 0)
    \/ \E p \in {FileA, FileB} : RemoveFile(p)
    \/ \E update \in BOOLEAN : StartMonitor(1, update)
    \/ MonitorLoad(1)
    \/ MonitorScan(1)
    \/ MonitorOpen(1)
    \/ MonitorDump(1)
    \/ MonitorWake(1)

\* One monitor loop, the only writer of its baseline file, whose writes
\* succeed, while the tree changes.
SpecLoop == InitLoop /\ [][NextLoop]_vars

(* ----------------------- a scan, file by file -------------------------- *)

\* The directories in the order in which os.walk, top down, yields them.
WalkDirs ==
    <<normalize_path(TARGET_DIR), join(TARGET_DIR, <<"d">>), join(TARGET_DIR, <<"d", "/", "e">>)>>

\* Whether the walk never enters the directory: a rule matched it, or a
\* directory above it, when the listing of its parent was filtered.
Pruned(d, patterns) ==
    \E anc \in TreeDirs :
        /\ anc = d \/ IsUnder(d, anc)
        /\ should_exclude(join(dirname(anc), basename(anc)), patterns)

\* The walker after the directory it is in: at the next directory that is
\* not pruned, or done.
Advance(w, patterns) ==
    LET rest == {i \in (w.at + 1)..Len(WalkDirs) : ~Pruned(WalkDirs[i], patterns)}
    IN  IF rest = {}
        THEN [w EXCEPT !.pc = "done", !.listed = {}]
        ELSE [w EXCEPT !.pc = "list", !.listed = {},
                       !.at = CHOOSE i \in rest : \A j \in rest : i <= j]

\* What open() and os.stat find at a name that was listed and has gone since.
Vanished == [NoFile EXCEPT !.access = "FileNotFoundError"]

\* scan_current_state is called: cur is empty and os.walk is at the root.
WalkBegin ==
    /\ walker.pc = "idle"
    /\ walker' = [IdleWalker EXCEPT !.pc = "list", !.seen = {fs}]
    /\ UNCHANGED <<env, config, bfile, logfile, now, untouched, resp, threads>>

\* Lines 116 to 121: os.walk lists the directory it has reached, and the
\* loop keeps the files that no rule excludes.
WalkList ==
    /\ walker.pc = "list"
    /\ LET dir == WalkDirs[walker.at]
           files == {p \in DOMAIN Tree :
                        /\ Tree[p].present
                        /\ dirname(join(TARGET_DIR, p)) = dir
                        /\ ~should_exclude(join(dir, basename(p)), exclude_patterns)}
       IN  walker' = IF files = {}
                     THEN Advance(walker, exclude_patterns)
                     ELSE [walker EXCEPT !.pc = "hash", !.listed = files]
    /\ UNCHANGED <<env, config, bfile, logfile, now, untouched, resp, threads>>

\* Lines 122 to 129: the next file of the listing is read and its record
\* stored, as the file is at that moment; after the last one the walk goes on.
WalkHash ==
    /\ walker.pc = "hash"
    /\ \E p \in walker.listed :
          LET file == IF Tree[p].present THEN Tree[p] ELSE Vanished
              rel == relpath(join(TARGET_DIR, p), normalize_path(TARGET_DIR))
              cur == [q \in DOMAIN walker.cur \cup {rel} |->
                         IF q = rel THEN FileRecord(file) ELSE walker.cur[q]]
              w == [walker EXCEPT !.cur = cur, !.listed = @ \ {p}]
          IN  walker' = IF w.listed = {} THEN Advance(w, exclude_patterns) ELSE w
    /\ UNCHANGED <<env, config, bfile, logfile, now, untouched, resp, threads>>

\* Trees of readable files, under the exclusion lists, with the baseline
\* file and the log file outside the tree.
InitWalk ==
    /\ fs \in [TreeFiles -> {NoFile, RegularFile(<<>>, 0, "ok")}]
    /\ exclude_patterns \in ExcludeChoices
    /\ cwd_is_target = FALSE
    /\ bfile = NoBaselineFile
    /\ logfile = NoLogFile
    /\ now = 0
    /\ edits = 0
    /\ untouched = FALSE
    /\ resp = NoResp
    /\ mon = [m \in Monitors |-> IdleMonitor]
    /\ cb = IdleCreate
    /\ alive = TRUE
    /\ walker = IdleWalker

NextWalk ==
    \/ \E p \in TreeFiles, data \in Contents : WriteFile(p, data, 0)
    \/ \E p \in TreeFiles : RemoveFile(p)
    \/ \E d \in TreeDirs : RemoveDir(d)
    \/ \E p \in TreeFiles, q \in TreeFiles : RenameFile(p, q)
    \/ WalkBegin
    \/ WalkList
    \/ WalkHash

\* One scan, step by step, while the tree changes.
SpecWalk == InitWalk /\ [][NextWalk]_vars

(* ======================================================================= *)
(* The claims checked under Spec: the scan and diff engine driven by the   *)
(* request handlers, each run to its end, while the tree changes.          *)
(* ======================================================================= *)

\* The paths a list of diff entries names.
Paths(list) == {list[i].path : i \in 1..Len(list)}

\* The last request was a scan that ran to its end and returned 0 or 1.
ScanReturned == resp.op = "scan" /\ resp.scanned /\ ~resp.raised

\* C1: compare_baseline_and_current returns as added exactly the paths of
\* current that the baseline lacks, each once and with current's record, as
\* deleted exactly the paths of the baseline that current lacks, each once
\* and with the baseline's record, and as modified exactly the paths of both
\* whose digests differ, each once and with both records.
C1_DiffIsSetAlgebra ==
    ScanReturned =>
        LET B == resp.baseline.files
            C == resp.current
            D == resp.diffs
        IN  /\ Paths(D.added) = DOMAIN C \ DOMAIN B
            /\ Len(D.added) = Cardinality(DOMAIN C \ DOMAIN B)
            /\ \A i \in 1..Len(D.added) : D.added[i].current = C[D.added[i].path]
            /\ Paths(D.deleted) = DOMAIN B \ DOMAIN C
            /\ Len(D.deleted) = Cardinality(DOMAIN B \ DOMAIN C)
            /\ \A i \in 1..Len(D.deleted) : D.deleted[i].baseline = B[D.deleted[i].path]
            /\ Paths(D.modified) = {k \in DOMAIN B \cap DOMAIN C : B[k].hash # C[k].hash}
            /\ Len(D.modified) = Cardinality(Paths(D.modified))
            /\ \A i \in 1..Len(D.modified) :
                  /\ D.modified[i].baseline = B[D.modified[i].path]
                  /\ D.modified[i].current = C[D.modified[i].path]

\* A scan that found files added, several files deleted and files unchanged.
C1_Witness ==
    /\ ScanReturned
    /\ resp.diffs.added # <<>>
    /\ Len(resp.diffs.deleted) = 2
    /\ DOMAIN resp.baseline.files \cap DOMAIN resp.current # {}

\* C3: ScanOnce returns 2 exactly when no baseline file exists, and then it
\* has not scanned the tree; otherwise it returns 0 exactly when added,
\* deleted and modified (the diff of the persisted baseline and the tree)
\* are all empty and 1 exactly when one of them is not.
C3_ScanOnceCode ==
    (resp.op = "scan" /\ ~resp.raised) =>
        /\ resp.rc \in {0, 1, 2}
        /\ resp.rc = 2 <=> ~bfile.exists
        /\ resp.rc = 2 => ~resp.scanned /\ resp.current = EmptyFiles /\ resp.diffs = NoDiffs
        /\ resp.rc # 2 =>
              /\ resp.scanned
              /\ resp.baseline = JsonLoad(bfile.text)
              /\ resp.rc = 0 <=> /\ resp.diffs.added = <<>>
                                 /\ resp.diffs.deleted = <<>>
                                 /\ resp.diffs.modified = <<>>
              /\ resp.rc = 1 <=> \/ resp.diffs.added # <<>>
                                 \/ resp.diffs.deleted # <<>>
                                 \/ resp.diffs.modified # <<>>

\* ScanOnce returned 2 over a tree that holds files a scan would have found.
C3_Witness ==
    /\ resp.op = "scan"
    /\ resp.rc = 2
    /\ ~bfile.exists
    /\ scan_current_state(Tree, exclude_patterns).cur # EmptyFiles

\* A rule of the list matches the directory, by its full path or its name.
RuleMatchesDir(d) ==
    \E i \in 1..Len(exclude_patterns) :
        \/ fnmatch(d, exclude_patterns[i])
        \/ fnmatch(basename(d), exclude_patterns[i])

\* C5: when an exclusion rule matches a directory of the tree, by its full
\* path or by its name, no baseline that CreateBaseline writes and no scan
\* holds an entry for a file in that directory or below it.
C5_ExcludedSubtree ==
    \A d \in TreeDirs :
        RuleMatchesDir(d) =>
            \A p \in (IF WellFormed(bfile.text) THEN DOMAIN JsonLoad(bfile.text).files ELSE {})
                        \cup DOMAIN resp.baseline.files \cup DOMAIN resp.current
                        \cup Paths(resp.diffs.added) :
                ~IsUnder(join(TARGET_DIR, p), d)

\* A baseline was written and a scan made while a rule matched directory d
\* by its name only, d/e/c existed and matched no rule itself, and a file
\* outside d was retained.
C5_Witness ==
    /\ ScanReturned
    /\ bfile.exists
    /\ RuleMatchesDir(join(TARGET_DIR, <<"d">>))
    /\ ~RuleMatchesDir(join(TARGET_DIR, <<"d", "/", "e">>))
    /\ fs[FileC].present
    /\ ~should_exclude(join(TARGET_DIR, FileC), exclude_patterns)
    /\ FileA \in DOMAIN resp.current
    /\ FileA \in DOMAIN resp.baseline.files

\* C6 as claimed: a scan that immediately follows the creation of the
\* baseline, the tree not having been changed in between, finds nothing and
\* returns 0, wherever the baseline file is stored.
C6_AsClaimed ==
    (resp.op = "scan" /\ untouched) => resp.rc = 0 /\ resp.diffs = NoDiffs

\* Whether a scan reads the baseline file: it is a file of the tree that no
\* rule excludes.
BaselineIsScanned ==
    cwd_is_target /\ ~should_exclude(join(TARGET_DIR, BASELINE_FILE), exclude_patterns)

\* C6, amended: a scan that immediately follows the creation of the
\* baseline, the tree not having been changed in between, finds nothing and
\* returns 0, provided that neither the baseline file nor the log file is a
\* file the scan retains.
C6_ScanAfterBaseline ==
    (resp.op = "scan" /\ untouched /\ ~BaselineIsScanned
        /\ ~LogIsScanned(cwd_is_target, exclude_patterns))
    => /\ ~resp.raised
       /\ resp.rc = 0
       /\ resp.diffs = NoDiffs

\* Such a scan, over a tree with retained files, with the baseline file and
\* the log file stored in the tree and excluded by rules.
C6_Witness ==
    /\ resp.op = "scan"
    /\ untouched
    /\ cwd_is_target
    /\ ~BaselineIsScanned
    /\ ~LogIsScanned(cwd_is_target, exclude_patterns)
    /\ resp.current # EmptyFiles
    /\ resp.rc = 0

\* C8: a scan never aborts because a file is unreadable: it runs to its end
\* and holds an entry for every retained file.
C8_ScanNeverAborts ==
    (resp.op = "scan" /\ resp.scanned) =>
        /\ ~resp.raised
        /\ DOMAIN resp.current = walk(TARGET_DIR, Tree, exclude_patterns)

\* C10: a path of both the baseline and the scan is reported exactly when
\* its digests differ, and then once, in modified, and in no other list;
\* when the two hold the same paths with the same digests the diff is empty
\* and ScanOnce returns 0, whatever the sizes and modification times are.
C10_DigestIsSoleAuthority ==
    ScanReturned =>
        LET B == resp.baseline.files
            C == resp.current
            D == resp.diffs
        IN  /\ \A p \in DOMAIN B \cap DOMAIN C :
                  /\ p \notin Paths(D.added) \cup Paths(D.deleted)
                  /\ B[p].hash # C[p].hash
                        <=> Cardinality({i \in 1..Len(D.modified) : D.modified[i].path = p}) = 1
                  /\ B[p].hash = C[p].hash => p \notin Paths(D.modified)
            /\ (DOMAIN B = DOMAIN C /\ \A p \in DOMAIN B : B[p].hash = C[p].hash)
                  => D = NoDiffs /\ resp.rc = 0

\* A scan that found nothing although a file of the baseline had its
\* modification time changed since.
C10_Witness ==
    /\ ScanReturned
    /\ resp.diffs = NoDiffs
    /\ resp.rc = 0
    /\ \E p \in DOMAIN resp.baseline.files \cap DOMAIN resp.current :
          /\ resp.baseline.files[p].mtime # resp.current[p].mtime
          /\ resp.baseline.files[p].hash = resp.current[p].hash

\* C16: in the diff a scan returns, no path is in two of the lists added,
\* deleted and modified, and no list names a path twice.
C16_ListsDisjoint ==
    ScanReturned =>
        LET D == resp.diffs
        IN  /\ Paths(D.added) \cap Paths(D.deleted) = {}
            /\ Paths(D.added) \cap Paths(D.modified) = {}
            /\ Paths(D.deleted) \cap Paths(D.modified) = {}
            /\ Len(D.added) = Cardinality(Paths(D.added))
            /\ Len(D.deleted) = Cardinality(Paths(D.deleted))
            /\ Len(D.modified) = Cardinality(Paths(D.modified))

\* A scan whose diff fills the three lists, one of them with two paths.
C16_Witness ==
    /\ ScanReturned
    /\ resp.diffs.added # <<>>
    /\ resp.diffs.deleted # <<>>
    /\ resp.diffs.modified # <<>>
    /\ Len(resp.diffs.added) + Len(resp.diffs.deleted) + Len(resp.diffs.modified) > 3

(* ======================================================================= *)
(* The claims checked under SpecConc: the threads of one process.          *)
(* ======================================================================= *)

\* A thread has the baseline file open for writing.
CreateWrites == cb.pc = "dump"
MonitorWrites(m) == mon[m].pc = "dump"

\* The loop of monitor m runs.
MonitorRuns(m) == mon[m].pc \in {"load", "scan", "open", "dump", "sleep"}

\* C2: a save of the baseline is atomic: whoever reads the baseline file,
\* at any point of a save and after the process was terminated in the
\* middle of one, finds a whole document, never an empty or a truncated one.
C2_AtomicSave == bfile.exists => WellFormed(bfile.text)

\* C4: in a cycle that counts changes with update_baseline set, the held
\* baseline becomes a document whose files are the current scan, stamped
\* with the clock and the root, and the loop goes on to write it; the loop
\* reaches its sleep after such a cycle only by writing the last chunk of
\* that same document, which leaves the whole document in the file when
\* nothing else disturbed what the loop had written; and the next scan
\* begins only from that sleep.
C4_UpdateThenPersist ==
    [][\A m \in Monitors :
          /\ (mon[m].pc = "scan" /\ mon'[m].pc \notin {"scan", "dead", "crashed"}) =>
                IF mon'[m].changes > 0 /\ mon[m].update
                THEN /\ mon'[m].pc = "open"
                     /\ mon'[m].held.files = mon'[m].current
                     /\ mon'[m].held.meta = [generated_at |-> now, root |-> TARGET_DIR]
                     /\ mon'[m].current = scan_current_state(Tree, exclude_patterns).cur
                ELSE /\ mon'[m].pc = "sleep"
                     /\ mon'[m].held = mon[m].held
          /\ mon[m].pc \in {"open", "dump"} =>
                /\ mon'[m].pc \in {"open", "dump", "sleep", "crashed", "dead"}
                /\ mon'[m].held = mon[m].held
                /\ mon'[m].pc = "sleep" =>
                      /\ mon[m].pc = "dump"
                      /\ Append(mon[m].emitted, bfile'.text[Len(mon[m].emitted) + 1])
                            = JsonDump(mon[m].held)
                      /\ bfile.text = mon[m].emitted => bfile'.text = JsonDump(mon[m].held)
          /\ (mon'[m].pc = "scan" /\ mon[m].pc # "scan") => mon[m].pc \in {"load", "sleep"}
      ]_vars

\* A loop sleeps after a cycle that counted changes with update_baseline
\* set, holding the current scan, and the file holds the held baseline.
C4_Witness ==
    \E m \in Monitors :
        /\ mon[m].pc = "sleep"
        /\ mon[m].update
        /\ mon[m].changes > 0
        /\ mon[m].held.files = mon[m].current
        /\ mon[m].current # EmptyFiles
        /\ bfile.text = JsonDump(mon[m].held)

\* C7: a single writer: at most one monitor loop runs, and at most one
\* thread has the baseline file open for writing.
C7_SingleWriter ==
    /\ Cardinality({m \in Monitors : MonitorRuns(m)}) <= 1
    /\ Cardinality({m \in Monitors : MonitorWrites(m)}) + (IF CreateWrites THEN 1 ELSE 0) <= 1

\* C9: a monitor loop that finds no baseline file when it loads reports it
\* and returns in that step, having scanned nothing and written nothing;
\* and a loop that returned stays as it is whatever happens afterwards.
C9_NoBaselineStops ==
    [][\A m \in Monitors :
          /\ (mon[m].pc = "load" /\ ~bfile.exists /\ mon'[m] # mon[m] /\ alive') =>
                /\ mon'[m].pc = "stopped"
                /\ mon'[m].reported = "Baseline not found. Run baseline first."
                /\ mon'[m].current = EmptyFiles
                /\ mon'[m].held = NoDoc
                /\ bfile' = bfile
          /\ mon[m].pc = "stopped" => mon'[m] = mon[m]
      ]_vars

\* A loop returned for want of a baseline, and a baseline was created
\* afterwards while the tree holds a file.
C9_Witness ==
    \E m \in Monitors :
        /\ mon[m].pc = "stopped"
        /\ mon[m].reported = "Baseline not found. Run baseline first."
        /\ WellFormed(bfile.text)
        /\ JsonLoad(bfile.text).files # EmptyFiles
        /\ alive

\* C11: the loop loads the baseline once, in its first step, and never
\* again; after that the held baseline changes only in a cycle that counts
\* changes with update_baseline set, and then to a whole new document made
\* of the clock, the root and the current scan; a cycle that counts no
\* change or runs without update_baseline, and the sleep that follows,
\* leave the held baseline and the baseline file as they were.
C11_HeldOnlyReplaced ==
    [][\A m \in Monitors :
          /\ mon'[m].held # mon[m].held =>
                \/ /\ mon[m].pc = "load"
                   /\ mon[m].held = NoDoc
                   /\ mon'[m].held = JsonLoad(bfile.text)
                \/ /\ mon[m].pc = "scan"
                   /\ mon[m].update
                   /\ mon'[m].changes > 0
                   /\ mon'[m].held = [meta |-> [generated_at |-> now, root |-> TARGET_DIR],
                                      files |-> mon'[m].current]
          /\ (mon[m].pc = "scan" /\ mon'[m] # mon[m]
                /\ ~(mon'[m].changes > 0 /\ mon[m].update)) =>
                /\ mon'[m].held = mon[m].held
                /\ bfile' = bfile
          /\ (mon[m].pc = "sleep" /\ mon'[m] # mon[m]) =>
                /\ mon'[m].held = mon[m].held
                /\ bfile' = bfile
          /\ mon'[m].pc = "load" => mon[m].pc \in {"idle", "load"}
      ]_vars

\* A loop without update_baseline sleeps after a cycle that counted
\* changes: it still holds the baseline it loaded, not the current scan, and
\* the baseline file exists.
C11_Witness ==
    \E m \in Monitors :
        /\ mon[m].pc = "sleep"
        /\ ~mon[m].update
        /\ mon[m].changes > 0
        /\ mon[m].held.files # mon[m].current
        /\ mon[m].held # NoDoc
        /\ bfile.exists

\* C12: the held baseline is the one of before the cycle for as long as the
\* write has not succeeded: the step that decides to update does not replace
\* it yet, and when the baseline file cannot be opened for writing the
\* failure is reported and the held baseline is left as it was.
C12_FailedWriteKeepsHeld ==
    [][\A m \in Monitors :
          /\ (mon[m].pc = "scan" /\ mon'[m].pc = "open") => mon'[m].held = mon[m].held
          /\ (mon[m].pc = "open" /\ mon'[m].pc = "crashed") =>
                /\ mon'[m].reported # ""
                /\ mon'[m].held = mon[m].held
      ]_vars

\* C13: an exception raised inside a cycle (by the scan or by the write of
\* the baseline) ends the loop with a report of the error, and a loop that
\* ended this way does nothing more.
C13_FailureReported ==
    [][\A m \in Monitors :
          /\ (mon[m].pc \in {"scan", "open", "dump"} /\ mon'[m].pc = "crashed") =>
                mon'[m].reported # ""
          /\ mon[m].pc = "crashed" => mon'[m] = mon[m]
      ]_vars

\* C14: a monitor loop that was stopped from outside (which, for a thread of
\* start_monitor, only the end of the process does) stopped cleanly: when no
\* other thread has touched the baseline file, the file it leaves holds a
\* whole document.
C14_CleanStop ==
    \A m \in Monitors :
        (/\ mon[m].pc = "dead"
         /\ cb.pc = "idle"
         /\ \A k \in Monitors \ {m} : mon[k].pc = "idle"
         /\ bfile.exists)
        => WellFormed(bfile.text)

(* ======================================================================= *)
(* The claims checked under SpecMove: files are renamed between requests.  *)
(* ======================================================================= *)

\* The last request was a scan that returned, made after exactly one change
\* of the tree, which was made after the baseline was created.
ScanAfterOneEdit == ScanReturned /\ bfile.exists /\ ~untouched /\ edits = 1

\* The diff names A alone as deleted, B alone as added and nothing as
\* modified, and B's digest is the one the baseline holds for A.
ReportsMove(D, A, B) ==
    /\ Len(D.deleted) = 1
    /\ D.deleted[1].path = A
    /\ Len(D.added) = 1
    /\ D.added[1].path = B
    /\ D.added[1].current.hash = D.deleted[1].baseline.hash
    /\ D.modified = <<>>

\* C15 as claimed: after a baseline was created and one file was renamed,
\* nothing else being changed, the next scan reports the old path alone as
\* deleted, the new path alone as added, and nothing as modified, whatever
\* the exclusion rules are and wherever the baseline and the log are stored.
C15_AsClaimed ==
    ScanAfterOneEdit =>
        \E A \in TreeFiles, B \in TreeFiles :
            /\ ~fs[A].present
            /\ fs[B].present
            /\ ReportsMove(resp.diffs, A, B)

\* C15, amended: the same, provided that the scan retains the file at the
\* old path and at the new one (A is a path of the baseline, B a path of
\* the scan) and retains neither the baseline file nor the log file.
C15_RenameIsDeleteAndAdd ==
    (ScanAfterOneEdit /\ ~BaselineIsScanned /\ ~LogIsScanned(cwd_is_target, exclude_patterns)) =>
        \A A \in TreeFiles, B \in TreeFiles :
            (/\ A \in DOMAIN resp.baseline.files
             /\ ~fs[A].present
             /\ fs[B].present
             /\ B \notin DOMAIN resp.baseline.files
             /\ B \in DOMAIN resp.current)
            => ReportsMove(resp.diffs, A, B)

\* Such a scan: file a was renamed into directory d, while the baseline
\* file and the log file are stored in the tree and excluded by rules.
C15_Witness ==
    /\ ScanAfterOneEdit
    /\ cwd_is_target
    /\ ~BaselineIsScanned
    /\ ~LogIsScanned(cwd_is_target, exclude_patterns)
    /\ FileA \in DOMAIN resp.baseline.files
    /\ ~fs[FileA].present
    /\ FileB \in DOMAIN resp.current \ DOMAIN resp.baseline.files
    /\ resp.rc = 1

\* C20 as claimed: a ScanOnce call leaves the baseline file as it was,
\* and a ScanOnce call that follows another with no change of the tree and
\* no new baseline in between returns the same code and the same diff,
\* wherever the log file is stored.
C20_AsClaimed ==
    [][resp'.op = "scan" =>
          /\ bfile' = bfile
          /\ resp.op = "scan" =>
                /\ resp'.raised = resp.raised
                /\ resp'.rc = resp.rc
                /\ resp'.diffs = resp.diffs
      ]_vars

\* C20, amended: a ScanOnce call leaves the baseline file as it was; and a
\* ScanOnce call that follows another with no change of the tree and no new
\* baseline in between returns the same code and the same diff, provided
\* that the log file is not a file the scan retains.
C20_ScanOnceKeepsBaseline ==
    [][resp'.op = "scan" =>
          /\ bfile' = bfile
          /\ (resp.op = "scan" /\ ~LogIsScanned(cwd_is_target, exclude_patterns)) =>
                /\ resp'.raised = resp.raised
                /\ resp'.rc = resp.rc
                /\ resp'.diffs = resp.diffs
      ]_vars

\* ScanOnce returned 1 for a tree that was changed after the baseline was
\* created, and the baseline file still holds the baseline it compared.
C20_Witness ==
    /\ ScanReturned
    /\ resp.rc = 1
    /\ edits > 0
    /\ ~LogIsScanned(cwd_is_target, exclude_patterns)
    /\ logfile.exists
    /\ WellFormed(bfile.text)
    /\ JsonLoad(bfile.text) = resp.baseline
    /\ resp.baseline.files # resp.current

(* ======================================================================= *)
(* The claims checked under SpecLoop: one loop, the only writer.           *)
(* ======================================================================= *)

\* The files of the tree other than the baseline file and the log file are
\* as the last scan of loop m found them.
TreeAsScanned(m) ==
    LET u == scan_current_state(TreeView(fs, NoBaselineFile, NoLogFile, FALSE), exclude_patterns)
    IN  /\ ~u.raised
        /\ DOMAIN u.cur = DOMAIN mon[m].current \cap TreeFiles
        /\ \A p \in DOMAIN u.cur : u.cur[p] = mon[m].current[p]

\* What C18 says of the cycle that follows one that counted changes.
ReportedOnce(m) ==
    IF mon[m].update
    THEN mon'[m].changes = 0 /\ mon'[m].pc = "sleep"
    ELSE mon'[m].changes = mon[m].changes /\ mon'[m].current = mon[m].current

\* C18 as claimed: when a cycle counted changes and nobody changed the tree
\* before the next scan, the next cycle counts no change if update_baseline
\* is set and the same changes again if it is not, wherever the baseline
\* file and the log file are stored.
C18_AsClaimed ==
    [][\A m \in Monitors :
          (/\ mon[m].pc = "scan"
           /\ mon'[m].pc \in {"open", "sleep"}
           /\ mon[m].changes > 0
           /\ TreeAsScanned(m))
          => ReportedOnce(m)
      ]_vars

\* C18, amended: the same, provided that neither the baseline file nor the
\* log file is a file the scan retains.
C18_DriftReportedOnce ==
    [][\A m \in Monitors :
          (/\ mon[m].pc = "scan"
           /\ mon'[m].pc \in {"open", "sleep"}
           /\ mon[m].changes > 0
           /\ TreeAsScanned(m)
           /\ ~BaselineIsScanned
           /\ ~LogIsScanned(cwd_is_target, exclude_patterns))
          => ReportedOnce(m)
      ]_vars

\* A loop with update_baseline set sleeps after a cycle that counted no
\* change, one baseline having been written since it started.
C18_Witness ==
    \E m \in Monitors :
        /\ mon[m].pc = "sleep"
        /\ mon[m].update
        /\ mon[m].changes = 0
        /\ now = 1
        /\ edits = 1
        /\ mon[m].held.files = mon[m].current
        /\ mon[m].current # EmptyFiles
        /\ ~BaselineIsScanned

\* C19: whenever the loop sleeps, the baseline file holds one whole
\* document, and it is the held baseline, meta and files.
C19_PersistedEqualsHeld ==
    \A m \in Monitors :
        mon[m].pc = "sleep" =>
            /\ bfile.exists
            /\ WellFormed(bfile.text)
            /\ JsonLoad(bfile.text).meta = mon[m].held.meta
            /\ JsonLoad(bfile.text).files = mon[m].held.files

\* The loop sleeps after it replaced the baseline it had loaded by a scan
\* that found files, and wrote it.
C19_Witness ==
    \E m \in Monitors :
        /\ mon[m].pc = "sleep"
        /\ mon[m].changes > 0
        /\ mon[m].update
        /\ now > 0
        /\ mon[m].held.files = mon[m].current
        /\ mon[m].current # EmptyFiles
        /\ bfile.mtime = now

(* ======================================================================= *)
(* The claim checked under SpecWalk: a scan while the tree changes.        *)
(* ======================================================================= *)

\* The map a scan of the tree would return if the tree stood still.
Snapshot(tree) ==
    scan_current_state(TreeView(tree, bfile, logfile, cwd_is_target), exclude_patterns).cur

\* C17: the map a scan returns is the snapshot of the tree as it was at
\* one instant between the start of the scan and its end.
C17_SnapshotAtOneInstant ==
    walker.pc = "done" => \E tree \in walker.seen : walker.cur = Snapshot(tree)

\* A scan that ended over a tree that nobody changed meanwhile returned the
\* snapshot of that tree.
WalkAgreesWithScan ==
    (walker.pc = "done" /\ walker.seen = {fs}) => walker.cur = Snapshot(fs)

====
